---- MODULE Spec2Model ----
(***************************************************************************)
(* Model of the PowerShare AIDL service (aidl/powershare/PowerShare.cpp).  *)
(*                                                                         *)
(* The service keeps no state of its own.  Every handler works on the one  *)
(* control node named by kWirelessTxEnablePath, through stat(2) and the    *)
(* libbase helpers ReadFileToString and WriteStringToFile.  The node is    *)
(* modelled as a file: existence, content (a sequence of characters) and   *)
(* the attributes that decide whether the helpers succeed on it.           *)
(*                                                                         *)
(* Two specifications:                                                     *)
(*   Spec      one handler call per step (the four AIDL methods);          *)
(*   SpecConc  two setEnabled calls in flight, one system call per step.   *)
(***************************************************************************)
EXTENDS Integers, Sequences, FiniteSets, TLC

VARIABLES
    node,       \* the file at kWirelessTxEnablePath
    shadow,     \* the same file in a run in which setMinBattery is never called
    last,       \* the most recent handler call: arguments, node before, results
    lastIs,     \* the most recent isEnabled call: the node it saw and its result
    requested,  \* history: was setMinBattery called, and with which value last
    wroteOk,    \* history: a WriteStringToFile of setEnabled has succeeded
    pc,         \* SpecConc: each in-flight setEnabled call's position
    arg,        \* SpecConc: each call's `enable` argument
    fd,         \* SpecConc: the inode each call's descriptor refers to
    firstOpener,\* SpecConc: the call whose open(2) came first
    lastWriter, \* SpecConc: the call whose write(2) came last
    node0       \* SpecConc: the node when the two calls started

vars == <<node, shadow, last, lastIs, requested, wroteOk, pc, arg, fd, firstOpener, lastWriter, node0>>

seqVars == <<shadow, last, lastIs, requested, wroteOk>>

concVars == <<pc, arg, fd, firstOpener, lastWriter, node0>>

---------------------------------------------------------------------------
(* Bounds and the input sets                                               *)

\* setMinBattery is tried with every threshold in -MaxThreshold..MaxThreshold
\* and with the two ends of int32_t.
MaxThreshold == 2

\* The largest int32_t, the type of setMinBattery's argument.
Int32Max == 2147483647

Thresholds == (-MaxThreshold..MaxThreshold) \cup {-Int32Max - 1, Int32Max}

\* "disable\n", the one content isEnabled reads as off.
kDisable == <<"d", "i", "s", "a", "b", "l", "e", "\n">>

\* The contents the node is started with: the sentinel, its near misses, the
\* two tokens the service writes, what a driver would print for "on", empty.
Contents ==
    { kDisable,
      <<"d", "i", "s", "a", "b", "l", "e">>,
      <<"d", "i", "s", "a", "b", "l", "e", "\n", "\n">>,
      <<"e", "n", "a", "b", "l", "e", "\n">>,
      <<"0">>,
      <<"1">>,
      <<>> }

\* writable: "yes"       open for writing and write(2) both succeed;
\*           "no_open"   open for writing fails (EACCES, EROFS);
\*           "no_write"  open succeeds, write(2) fails (ENOSPC, EIO, EINVAL).
Writable == {"yes", "no_open", "no_write"}

\* Every state the control node can be in when a call arrives.  An absent
\* node has no content.  dirWritable: the directory lets entries be created
\* and removed.  ino tells a re-created file from the one removed.
Nodes ==
    { n \in [exists : BOOLEAN, content : Contents, readable : BOOLEAN,
             writable : Writable, dirWritable : BOOLEAN, ino : {0}] :
        ~n.exists => n.content = <<>> }

---------------------------------------------------------------------------
(* The file operations the handlers use                                    *)

\* stat(kWirelessTxEnablePath, &sb): 0 when the node exists, -1 otherwise.
stat(n) == IF n.exists THEN 0 ELSE -1

\* ReadFileToString(kWirelessTxEnablePath, &value): the whole content, or
\* failure when the node cannot be opened or read.
ReadFileToString(n) ==
    IF n.exists /\ n.readable
    THEN [ok |-> TRUE, value |-> n.content]
    ELSE [ok |-> FALSE, value |-> <<>>]

\* Mutant: the file is opened without O_TRUNC.
open_noTrunc(n) ==
    IF n.exists
    THEN IF n.writable = "no_open"
         THEN [ok |-> FALSE, node |-> n, fd |-> -1]
         ELSE [ok |-> TRUE, node |-> n, fd |-> n.ino]
    ELSE IF n.dirWritable
         THEN [ok |-> TRUE,
               node |-> [n EXCEPT !.exists = TRUE, !.content = <<>>,
                                  !.readable = TRUE, !.ino = n.ino + 1],
               fd |-> n.ino + 1]
         ELSE [ok |-> FALSE, node |-> n, fd |-> -1]

\* WriteStringToFile's open(path, O_WRONLY | O_CREAT | O_TRUNC, 0666): an
\* existing file is truncated, a missing one is created where the directory
\* allows it.  fd is the inode the descriptor refers to.
open(n) ==
    IF n.exists
    THEN IF n.writable = "no_open"
         THEN [ok |-> FALSE, node |-> n, fd |-> -1]
         ELSE [ok |-> TRUE, node |-> [n EXCEPT !.content = <<>>], fd |-> n.ino]
    ELSE IF n.dirWritable
         THEN [ok |-> TRUE,
               node |-> [n EXCEPT !.exists = TRUE, !.content = <<>>,
                                  !.readable = TRUE, !.ino = n.ino + 1],
               fd |-> n.ino + 1]
         ELSE [ok |-> FALSE, node |-> n, fd |-> -1]

\* Writing `data` at offset 0 of `content`: the bytes it covers are replaced,
\* the bytes after them stay.
Overwrite(content, data) ==
    data \o SubSeq(content, Len(data) + 1, Len(content))

\* Mutant: the data is appended to the file (O_APPEND) instead of written
\* at the descriptor's offset.
WriteStringToFd_append(data, n, f) ==
    IF n.writable = "no_write"
    THEN [ok |-> FALSE, node |-> n]
    ELSE IF n.exists /\ n.ino = f
         THEN [ok |-> TRUE, node |-> [n EXCEPT !.content = n.content \o data]]
         ELSE [ok |-> TRUE, node |-> n]

\* WriteStringToFd(content, fd): write(2) on a descriptor just opened, so at
\* offset 0.  A descriptor whose file was unlinked meanwhile writes to the
\* orphaned inode, and the path is not touched.
WriteStringToFd(data, n, f) ==
    IF n.writable = "no_write"
    THEN [ok |-> FALSE, node |-> n]
    ELSE IF n.exists /\ n.ino = f
         THEN [ok |-> TRUE, node |-> [n EXCEPT !.content = Overwrite(n.content, data)]]
         ELSE [ok |-> TRUE, node |-> n]

\* WriteStringToFile's clean-up after a failed write: unlink(path).
unlink(n) ==
    IF n.exists /\ n.dirWritable
    THEN [n EXCEPT !.exists = FALSE, !.content = <<>>]
    ELSE n

\* WriteStringToFile(content, kWirelessTxEnablePath, true): open, write, and
\* on a failed write remove the file.  (The third argument is
\* follow_symlinks.)
WriteStringToFile(data, n) ==
    LET o == open(n) IN
    IF ~o.ok
    THEN [ok |-> FALSE, node |-> n]
    ELSE LET w == WriteStringToFd(data, o.node, o.fd) IN
         IF w.ok
         THEN [ok |-> TRUE, node |-> w.node]
         ELSE [ok |-> FALSE, node |-> unlink(o.node)]

---------------------------------------------------------------------------
(* The four handlers, as functions of the node and the arguments           *)

\* ndk::ScopedAStatus::ok()
StatusOk == "ok"

\* Mutant: the threshold last passed to setMinBattery is returned.
getMinBattery_stored ==
    [ret |-> IF requested.called THEN requested.value ELSE 0, status |-> StatusOk]

\* PowerShare::getMinBattery
getMinBattery == [ret |-> 0, status |-> StatusOk]

\* Mutant: the content is compared with "0", the token setEnabled(false)
\* writes, as well.
isEnabled_zeroIsOff(n) ==
    IF stat(n) # 0
    THEN [ret |-> FALSE, status |-> StatusOk, node |-> n]
    ELSE LET r == ReadFileToString(n) IN
         IF ~r.ok
         THEN [ret |-> FALSE, status |-> StatusOk, node |-> n]
         ELSE [ret |-> (r.value # kDisable /\ r.value # <<"0">>),
               status |-> StatusOk, node |-> n]

\* Mutant: a missing node is reported as a transport-level error.
isEnabled_errorOnMissing(n) ==
    IF stat(n) # 0
    THEN [ret |-> FALSE, status |-> "error", node |-> n]
    ELSE LET r == ReadFileToString(n) IN
         IF ~r.ok
         THEN [ret |-> FALSE, status |-> StatusOk, node |-> n]
         ELSE [ret |-> (r.value # kDisable), status |-> StatusOk, node |-> n]

\* Mutant: reading consumes the node's content.
isEnabled_consumes(n) ==
    IF stat(n) # 0
    THEN [ret |-> FALSE, status |-> StatusOk, node |-> n]
    ELSE LET r == ReadFileToString(n) IN
         IF ~r.ok
         THEN [ret |-> FALSE, status |-> StatusOk, node |-> n]
         ELSE [ret |-> (r.value # kDisable), status |-> StatusOk,
               node |-> [n EXCEPT !.content = <<>>]]

\* PowerShare::isEnabled
isEnabled(n) ==
    IF stat(n) # 0
    THEN [ret |-> FALSE, status |-> StatusOk, node |-> n]
    ELSE LET r == ReadFileToString(n) IN
         IF ~r.ok
         THEN [ret |-> FALSE, status |-> StatusOk, node |-> n]
         ELSE [ret |-> (r.value # kDisable), status |-> StatusOk, node |-> n]

\* enable ? "1" : "0"
Token(enable) == IF enable THEN <<"1">> ELSE <<"0">>

\* Mutant: the existence check is left out.
setEnabled_noStat(n, enable) ==
    LET w == WriteStringToFile(Token(enable), n) IN
    [status |-> StatusOk, node |-> w.node, wrote |-> w.ok]

\* Mutant: a failed write is returned as a transport-level error.
setEnabled_propagates(n, enable) ==
    IF stat(n) # 0
    THEN [status |-> StatusOk, node |-> n, wrote |-> FALSE]
    ELSE LET w == WriteStringToFile(Token(enable), n) IN
         [status |-> IF w.ok THEN StatusOk ELSE "error", node |-> w.node, wrote |-> w.ok]

\* Mutant: setEnabled(false) writes the sentinel isEnabled reads as off.
setEnabled_writesSentinel(n, enable) ==
    IF stat(n) # 0
    THEN [status |-> StatusOk, node |-> n, wrote |-> FALSE]
    ELSE LET w == WriteStringToFile(IF enable THEN <<"1">> ELSE kDisable, n) IN
         [status |-> StatusOk, node |-> w.node, wrote |-> w.ok]

\* PowerShare::setEnabled
setEnabled(n, enable) ==
    IF stat(n) # 0
    THEN [status |-> StatusOk, node |-> n, wrote |-> FALSE]
    ELSE LET w == WriteStringToFile(Token(enable), n) IN
         [status |-> StatusOk, node |-> w.node, wrote |-> w.ok]

\* Mutant: a threshold of 0 or less switches the feature off.
setMinBattery_applies(n, minBattery) ==
    IF minBattery <= 0
    THEN [status |-> StatusOk, node |-> setEnabled(n, FALSE).node]
    ELSE [status |-> StatusOk, node |-> n]

\* PowerShare::setMinBattery
setMinBattery(n, minBattery) == [status |-> StatusOk, node |-> n]

---------------------------------------------------------------------------
(* Spec: one handler call per step                                         *)

NoCall ==
    [op |-> "none", argInt |-> 0, argBool |-> FALSE, pre |-> node,
     retInt |-> 0, retBool |-> FALSE, status |-> StatusOk,
     sretInt |-> 0, sretBool |-> FALSE, sstatus |-> StatusOk,
     prev |-> [valid |-> FALSE, node |-> node, ret |-> FALSE]]

Idle ==
    /\ pc = [p \in {1, 2} |-> "done"]
    /\ arg = [p \in {1, 2} |-> FALSE]
    /\ fd = [p \in {1, 2} |-> -1]
    /\ firstOpener = 0
    /\ lastWriter = 0
    /\ node0 = node

Init ==
    /\ node \in Nodes
    /\ shadow = node
    /\ last = NoCall
    /\ lastIs = [valid |-> FALSE, node |-> node, ret |-> FALSE]
    /\ requested = [called |-> FALSE, value |-> 0]
    /\ wroteOk = FALSE
    /\ Idle

GetMinBattery ==
    LET r == getMinBattery
        s == getMinBattery IN
    /\ last' = [NoCall EXCEPT !.op = "getMinBattery", !.retInt = r.ret,
                              !.status = r.status, !.sretInt = s.ret,
                              !.sstatus = s.status]
    /\ UNCHANGED <<node, shadow, lastIs, requested, wroteOk>>
    /\ UNCHANGED concVars

IsEnabled ==
    LET r == isEnabled(node)
        s == isEnabled(shadow) IN
    /\ node' = r.node
    /\ shadow' = s.node
    /\ last' = [NoCall EXCEPT !.op = "isEnabled", !.retBool = r.ret,
                              !.status = r.status, !.sretBool = s.ret,
                              !.sstatus = s.status, !.prev = lastIs]
    /\ lastIs' = [valid |-> TRUE, node |-> node, ret |-> r.ret]
    /\ UNCHANGED <<requested, wroteOk>>
    /\ UNCHANGED concVars

SetEnabled ==
    \E enable \in BOOLEAN :
        LET r == setEnabled(node, enable)
            s == setEnabled(shadow, enable) IN
        /\ node' = r.node
        /\ shadow' = s.node
        /\ last' = [NoCall EXCEPT !.op = "setEnabled", !.argBool = enable,
                                  !.status = r.status, !.sstatus = s.status]
        /\ wroteOk' = (wroteOk \/ r.wrote)
        /\ UNCHANGED <<lastIs, requested>>
        /\ UNCHANGED concVars

\* The shadow run does not make this call.
SetMinBattery ==
    \E minBattery \in Thresholds :
        LET r == setMinBattery(node, minBattery) IN
        /\ node' = r.node
        /\ last' = [NoCall EXCEPT !.op = "setMinBattery", !.argInt = minBattery,
                                  !.status = r.status]
        /\ requested' = [called |-> TRUE, value |-> minBattery]
        /\ UNCHANGED <<shadow, lastIs, wroteOk>>
        /\ UNCHANGED concVars

Next ==
    \/ GetMinBattery
    \/ IsEnabled
    \/ SetEnabled
    \/ SetMinBattery

Spec == Init /\ [][Next]_vars

---------------------------------------------------------------------------
(* SpecConc: two setEnabled calls in flight, one system call per step      *)

Calls == {1, 2}

InitConc ==
    /\ node \in Nodes
    /\ node0 = node
    /\ pc = [p \in Calls |-> "stat"]
    /\ arg \in [Calls -> BOOLEAN]
    /\ fd = [p \in Calls |-> -1]
    /\ firstOpener = 0
    /\ lastWriter = 0
    /\ shadow = node
    /\ last = NoCall
    /\ lastIs = [valid |-> FALSE, node |-> node, ret |-> FALSE]
    /\ requested = [called |-> FALSE, value |-> 0]
    /\ wroteOk = FALSE

\* setEnabled's stat(): a missing node ends the call.
Stat(p) ==
    /\ pc[p] = "stat"
    /\ pc' = [pc EXCEPT ![p] = IF stat(node) # 0 THEN "done" ELSE "open"]
    /\ UNCHANGED <<node, arg, fd, firstOpener, lastWriter, node0>>
    /\ UNCHANGED seqVars

\* WriteStringToFile's open(): a failure ends the call.
Open(p) ==
    /\ pc[p] = "open"
    /\ LET o == open(node) IN
       /\ node' = o.node
       /\ fd' = [fd EXCEPT ![p] = o.fd]
       /\ pc' = [pc EXCEPT ![p] = IF o.ok THEN "write" ELSE "done"]
       /\ firstOpener' = IF o.ok /\ firstOpener = 0 THEN p ELSE firstOpener
    /\ UNCHANGED <<arg, lastWriter, node0>>
    /\ UNCHANGED seqVars

\* WriteStringToFile's write(): a failure goes on to the clean-up.
Write(p) ==
    /\ pc[p] = "write"
    /\ LET w == WriteStringToFd(Token(arg[p]), node, fd[p]) IN
       /\ node' = w.node
       /\ pc' = [pc EXCEPT ![p] = IF w.ok THEN "done" ELSE "cleanup"]
       /\ lastWriter' = IF w.ok THEN p ELSE lastWriter
    /\ UNCHANGED <<arg, fd, firstOpener, node0>>
    /\ UNCHANGED seqVars

\* WriteStringToFile's unlink() after the failed write; setEnabled returns.
Cleanup(p) ==
    /\ pc[p] = "cleanup"
    /\ node' = unlink(node)
    /\ pc' = [pc EXCEPT ![p] = "done"]
    /\ UNCHANGED <<arg, fd, firstOpener, lastWriter, node0>>
    /\ UNCHANGED seqVars

Step(p) == Stat(p) \/ Open(p) \/ Write(p) \/ Cleanup(p)

NextConc ==
    \/ \E p \in Calls : Stat(p)
    \/ \E p \in Calls : Open(p)
    \/ \E p \in Calls : Write(p)
    \/ \E p \in Calls : Cleanup(p)

SpecConc == InitConc /\ [][NextConc]_vars

---------------------------------------------------------------------------
(* The claims.  Under Spec, `last` describes the call just made: last.pre  *)
(* is the node before it, node the node after it.                          *)

ServiceOps == {"getMinBattery", "isEnabled", "setEnabled", "setMinBattery"}

\* C1: isEnabled() returns false if and only if the node is absent, or the
\* read fails, or the content is exactly "disable\n"; every other readable
\* content, "0", "disable" and the empty string included, gives true.
C1_IsEnabledFalseIffOff ==
    last.op = "isEnabled" =>
        (last.retBool = FALSE <=>
            \/ ~last.pre.exists
            \/ ~last.pre.readable
            \/ last.pre.content = kDisable)

\* C1 witness: isEnabled has read "disable" without the newline and
\* returned true.
C1_Witness ==
    /\ last.op = "isEnabled"
    /\ last.pre.exists
    /\ last.pre.readable
    /\ last.pre.content = <<"d", "i", "s", "a", "b", "l", "e">>
    /\ last.retBool = TRUE

\* C2: on a node that exists and is writable, setEnabled(true) leaves the
\* content exactly "1" and setEnabled(false) exactly "0", whatever the
\* content was before.
C2_SetEnabledWritesToken ==
    (last.op = "setEnabled" /\ last.pre.exists /\ last.pre.writable = "yes") =>
        /\ node.exists
        /\ node.content = (IF last.argBool THEN <<"1">> ELSE <<"0">>)

\* C2 witness: setEnabled(true) has replaced the longer content "disable\n"
\* by "1".
C2_Witness ==
    /\ last.op = "setEnabled"
    /\ last.argBool = TRUE
    /\ last.pre.exists
    /\ last.pre.writable = "yes"
    /\ last.pre.content = kDisable
    /\ node.content = <<"1">>

\* C3: setEnabled(x) on an absent node writes nothing, creates no file and
\* returns success.
C3_SetEnabledAbsentNoOp ==
    (last.op = "setEnabled" /\ ~last.pre.exists) =>
        /\ ~node.exists
        /\ node = last.pre
        /\ last.status = StatusOk

\* C3 witness: setEnabled(true) was called with the node absent, in a
\* directory where the file could have been created.
C3_Witness ==
    /\ last.op = "setEnabled"
    /\ last.argBool = TRUE
    /\ ~last.pre.exists
    /\ last.pre.dirWritable
    /\ ~node.exists

C5_AlwaysOk ==
    last.op \in ServiceOps => last.status = StatusOk

\* C5 witness: isEnabled was called on a node that exists, cannot be read
\* and cannot be opened for writing.
C5_Witness ==
    /\ last.op = "isEnabled"
    /\ last.pre.exists
    /\ ~last.pre.readable
    /\ last.pre.writable = "no_open"
    /\ last.status = StatusOk

\* C6: getMinBattery() returns 0, whatever setMinBattery calls came before.
C6_GetMinBatteryZero ==
    last.op = "getMinBattery" => last.retInt = 0

\* C6 witness: getMinBattery was called after setMinBattery(INT32_MAX).
C6_Witness ==
    /\ last.op = "getMinBattery"
    /\ requested.called
    /\ requested.value = Int32Max
    /\ last.retInt = 0

\* C7: setMinBattery(v) returns success and leaves the node as it was, and
\* every call of the other three operations returns what it returns in the
\* run without the setMinBattery calls, on the same node.
C7_SetMinBatteryNoEffect ==
    /\ last.op = "setMinBattery" =>
        /\ last.status = StatusOk
        /\ node = last.pre
    /\ node = shadow
    /\ last.op \in {"getMinBattery", "isEnabled", "setEnabled"} =>
        /\ last.retInt = last.sretInt
        /\ last.retBool = last.sretBool
        /\ last.status = last.sstatus

\* C7 witness: isEnabled was called on a readable node after a
\* setMinBattery with a negative threshold.
C7_Witness ==
    /\ last.op = "isEnabled"
    /\ requested.called
    /\ requested.value < 0
    /\ last.pre.exists
    /\ last.pre.readable

\* C8: isEnabled() leaves the node unchanged, no operation but setEnabled
\* changes it, and an isEnabled() call on the node the previous isEnabled()
\* call saw returns the same value.
C8_IsEnabledReadOnly ==
    /\ last.op = "isEnabled" => node = last.pre
    /\ last.op \in (ServiceOps \ {"setEnabled"}) => node = last.pre
    /\ (last.op = "isEnabled" /\ last.prev.valid /\ last.prev.node = last.pre) =>
        last.retBool = last.prev.ret

\* C8 witness: a second isEnabled call on an unchanged readable node has
\* returned true again.
C8_Witness ==
    /\ last.op = "isEnabled"
    /\ last.prev.valid
    /\ last.prev.node = last.pre
    /\ last.pre.exists
    /\ last.pre.readable
    /\ last.retBool = TRUE
    /\ node = last.pre

\* C9: once a write of setEnabled has succeeded the node holds "1" or "0",
\* and isEnabled() on the node, present and readable, returns true: also
\* after setEnabled(false).
C9_NeverOffAfterWrite ==
    /\ (wroteOk /\ node.exists) => node.content \in {<<"0">>, <<"1">>}
    /\ (wroteOk /\ last.op = "isEnabled" /\ last.pre.exists /\ last.pre.readable) =>
        last.retBool = TRUE

\* C9 witness: isEnabled has returned true on the "0" that setEnabled(false)
\* wrote.
C9_Witness ==
    /\ wroteOk
    /\ last.op = "isEnabled"
    /\ last.pre.exists
    /\ last.pre.readable
    /\ last.pre.content = <<"0">>
    /\ last.retBool = TRUE

AllDone == \A p \in Calls : pc[p] = "done"

\* C10: two concurrent setEnabled calls on a present, writable node, their
\* steps interleaved in any order: once both have returned, the content is
\* the token of the call whose write came last, and a call that has not
\* returned can always take its next step.
C10_LastWriterWins ==
    /\ (AllDone /\ node0.exists /\ node0.writable = "yes") =>
        /\ lastWriter \in Calls
        /\ node.exists
        /\ node.content = Token(arg[lastWriter])
    /\ \A p \in Calls : pc[p] # "done" => ENABLED Step(p)

\* C10 witness: call 1 opened first and wrote last, with the other call's
\* open and write of the other token in between.
C10_Witness ==
    /\ AllDone
    /\ node0.exists
    /\ node0.writable = "yes"
    /\ node0.content = kDisable
    /\ arg[1] # arg[2]
    /\ firstOpener = 1
    /\ lastWriter = 1
    /\ node.content = Token(arg[1])

====
